---- MODULE Spec2Model ----
(***************************************************************************)
(* Wordmark approval ledger (word-mark-generator/google-apps-script.js).   *)
(*                                                                         *)
(* A Google Sheet is the ledger; the web app offers submit, check and      *)
(* download, and a reviewer edits the Status column by hand.  String       *)
(* functions (trim, toUpperCase, toLowerCase) are computed character by    *)
(* character.  A sheet row is a 10-tuple of cells (columns A..J, numbered  *)
(* from 1 as getRange numbers them); sheet[1] is the header row.           *)
(***************************************************************************)
EXTENDS Integers, Sequences, FiniteSets, TLC

(***************************************************************************)
(* Bounds of the model.                                                    *)
(***************************************************************************)
\* number of API calls that may be started in one behaviour
MaxCalls == 3
\* number of requests the ledger may hold
MaxRows == 2
\* the clock takes the values 0..MaxTime
MaxTime == 1

(***************************************************************************)
(* Strings.                                                                *)
(***************************************************************************)
UpperAZ == "ABCDEFGHIJKLMNOPQRSTUVWXYZ"
LowerAZ == "abcdefghijklmnopqrstuvwxyz"

\* String.prototype.charAt, counting from 1
CharAt(s, k) == SubSeq(s, k, k)

\* the characters String.prototype.trim() removes (those the model uses)
WhiteSpace == {" ", "\t", "\n"}

\* the case mappings of the letters A..Z and a..z
UpperOf ==
    [c \in {CharAt(LowerAZ, k) : k \in 1..Len(LowerAZ)} |->
        CharAt(UpperAZ, CHOOSE k \in 1..Len(LowerAZ) : CharAt(LowerAZ, k) = c)]
LowerOf ==
    [c \in {CharAt(UpperAZ, k) : k \in 1..Len(UpperAZ)} |->
        CharAt(LowerAZ, CHOOSE k \in 1..Len(UpperAZ) : CharAt(UpperAZ, k) = c)]

ToUpperChar(c) == IF c \in DOMAIN UpperOf THEN UpperOf[c] ELSE c

ToLowerChar(c) == IF c \in DOMAIN LowerOf THEN LowerOf[c] ELSE c

\* String.prototype.toUpperCase
RECURSIVE toUpperCase(_)
toUpperCase(s) ==
    IF s = "" THEN ""
    ELSE ToUpperChar(CharAt(s, 1)) \o toUpperCase(SubSeq(s, 2, Len(s)))

\* String.prototype.toLowerCase
RECURSIVE toLowerCase(_)
toLowerCase(s) ==
    IF s = "" THEN ""
    ELSE ToLowerChar(CharAt(s, 1)) \o toLowerCase(SubSeq(s, 2, Len(s)))

\* String.prototype.trim: drop the white space at both ends
trim(s) ==
    LET keep == {k \in 1..Len(s) : CharAt(s, k) \notin WhiteSpace}
    IN  IF keep = {} THEN ""
        ELSE LET lo == CHOOSE k \in keep : \A j \in keep : k <= j
                 hi == CHOOSE k \in keep : \A j \in keep : k >= j
             IN  SubSeq(s, lo, hi)

\* params.f || dflt : an absent field and the empty string are both falsy
OrElse(params, f, dflt) ==
    IF f \in DOMAIN params /\ params[f] # "" THEN params[f] ELSE dflt

(***************************************************************************)
(* Time: new Date().toISOString() for clock value t (seconds past a fixed  *)
(* instant, t < 60).                                                       *)
(***************************************************************************)
Digits == "0123456789"

toISOString(t) ==
    "2026-01-01T00:00:"
    \o CharAt(Digits, (t \div 10) + 1) \o CharAt(Digits, (t % 10) + 1)
    \o ".000Z"

(***************************************************************************)
(* generateRequestId.  Math.random() returns r / RandRes for some          *)
(* r in 0..RandRes-1; a draw is the six values one call obtains.           *)
(***************************************************************************)
chars == "ABCDEFGHJKLMNPQRSTUVWXYZ23456789"

IdLen == 6
RandRes == 64
RandStride == 7

\* the bounded set of outcomes of the six Math.random() calls of one submit
RandomDraws ==
    { [k \in 1..IdLen |-> (d * k * RandStride) % RandRes] : d \in {0, 1} }

\* Math.floor(Math.random() * chars.length), for Math.random() = r / RandRes
RandomIndex(r) == (r * Len(chars)) \div RandRes

RECURSIVE IdSuffix(_, _)
IdSuffix(draw, k) ==
    IF k > IdLen THEN ""
    ELSE CharAt(chars, RandomIndex(draw[k]) + 1) \o IdSuffix(draw, k + 1)

\* generateRequestId with the loop of line 41 ending one round early
generateRequestIdShort(draw) == "WM-" \o SubSeq(IdSuffix(draw, 1), 1, IdLen - 1)

generateRequestId(draw) == "WM-" \o IdSuffix(draw, 1)

\* draws that reach both ends of the range of Math.random()
WideDraws ==
    { [k \in 1..IdLen |-> (a + b * k) % RandRes] :
        a \in {0, 21, 42, RandRes - 1}, b \in {0, 1, 13} }

(***************************************************************************)
(* Inputs of the calls.                                                    *)
(***************************************************************************)
\* e-mail addresses as callers type them
SubmitEmails == {" A@x", "b@x"}
LookupEmails == {"a@x ", "b@x"}

\* parameters of submit: complete ones, and ones with a required field
\* empty, blank or absent
SubmitInputs ==
    { [email |-> e, icon |-> "sun", line1 |-> "OCHA "] : e \in SubmitEmails }
    \cup { [email |-> " ", icon |-> "sun", line1 |-> "OCHA"],
           [icon |-> "sun", line1 |-> "OCHA"],
           [email |-> "b@x", icon |-> "", line1 |-> "OCHA"],
           [email |-> "b@x", icon |-> "sun", line2 |-> "Geneva"] }

\* the ids generateRequestId can issue in this model
IssuedIds == { generateRequestId(d) : d \in RandomDraws }

\* request ids as callers type them: as issued, or in lower case with
\* white space around
LookupIds == UNION { { r, " " \o toLowerCase(r) \o "\t" } : r \in IssuedIds }

\* parameters of check and download
LookupInputs ==
    { [requestId |-> r, email |-> e] : r \in LookupIds, e \in LookupEmails }
    \cup { [requestId |-> "WM-AAAAAA"], [requestId |-> " ", email |-> "b@x"] }

\* what a person may type into a status cell besides the four tokens
HandTyped == {" Approved ", "approved"}

(***************************************************************************)
(* The string functions on the strings of this model, computed once.       *)
(***************************************************************************)
FieldValues ==
    UNION { { params[f] : f \in DOMAIN params } : params \in SubmitInputs \cup LookupInputs }

ModelStrings ==
    LET base == FieldValues \cup IssuedIds \cup HandTyped
                \cup {"", "1", "Pending", "Approved", "Downloaded", "Rejected"}
    IN  base \cup { trim(s) : s \in base }

TrimOf == [s \in ModelStrings |-> trim(s)]
UpperOfString == [s \in ModelStrings |-> toUpperCase(s)]
LowerOfString == [s \in ModelStrings |-> toLowerCase(s)]

Trim(s) == IF s \in ModelStrings THEN TrimOf[s] ELSE trim(s)
Upper(s) == IF s \in ModelStrings THEN UpperOfString[s] ELSE toUpperCase(s)
Lower(s) == IF s \in ModelStrings THEN LowerOfString[s] ELSE toLowerCase(s)

(***************************************************************************)
(* The sheet and its cells.                                                *)
(***************************************************************************)
\* the status tokens the script writes and compares
Pending    == "Pending"
Approved   == "Approved"
Downloaded == "Downloaded"
Rejected   == "Rejected"

NOTIFY_EMAIL == "ochavisual@un.org"

\* row 1 of the sheet
HeaderRow ==
    << "Timestamp", "Email", "Icon", "Line 1", "Line 2", "Line 3",
       "Layout", "Request ID", "Status", "Downloaded At" >>

\* appendRow putting the row first among the data rows
insertRowAfterHeader(sh, row) == <<sh[1], row>> \o SubSeq(sh, 2, Len(sh))

\* sheet.appendRow(row)
appendRow(sh, row) == Append(sh, row)

\* sheet.getDataRange().getValues(): the rows, indexed from 0 in the script;
\* DataCell(data, i, j) is data[i][j] of the script
getValues(sh) == sh
DataLength(data) == Len(data)
DataCell(data, i, j) == data[i + 1][j + 1]

\* sheet.getRange(row, col).setValue(v), rows and columns numbered from 1
setValue(sh, row, col, v) == [sh EXCEPT ![row][col] = v]

(***************************************************************************)
(* Responses.                                                              *)
(***************************************************************************)
NoResp == [none |-> TRUE]
NoReq == [action |-> "none"]

\* the request with params.action = action
Request(action, params) == [action |-> action, params |-> params]

ValidationError ==
    [success |-> FALSE, error |-> "Email, icon, and at least line 1 are required."]
SubmitOk(requestId) ==
    [success |-> TRUE, requestId |-> requestId,
     message |-> "Request submitted. You will receive an email when approved."]
MissingCredentials ==
    [success |-> FALSE, error |-> "Request ID and email are required."]
CheckOk(status) ==
    [success |-> TRUE, status |-> status, canDownload |-> (status = Approved)]
CheckNotFound ==
    [success |-> FALSE, error |-> "Request not found. Check your Request ID and email."]
AlreadyDownloaded ==
    [success |-> FALSE,
     error |-> "This wordmark has already been downloaded. Contact ochavisual@un.org for another download."]
NotApproved ==
    [success |-> FALSE, error |-> "This request is not yet approved."]
DownloadOk == [success |-> TRUE, canDownload |-> TRUE]
DownloadNotFound == [success |-> FALSE, error |-> "Request not found."]
UnknownAction == [success |-> FALSE, error |-> "Unknown action"]

(***************************************************************************)
(* submitRequest.                                                          *)
(***************************************************************************)
\* the cells of the row submitRequest appends, from the trimmed parameters
SubmitRow(params, requestId, t) ==
    << toISOString(t),
       Trim(OrElse(params, "email", "")),
       Trim(OrElse(params, "icon", "")),
       Trim(OrElse(params, "line1", "")),
       Trim(OrElse(params, "line2", "")),
       Trim(OrElse(params, "line3", "")),
       Trim(OrElse(params, "layout", "1")),
       requestId, Pending, "" >>

\* SubmitValid with the tests of icon and line1 left out
SubmitValidEmailOnly(params) ==
    Trim(OrElse(params, "email", "")) # ""

\* the test of line 98, negated: email, icon and line1 are all non-empty
SubmitValid(params) ==
    /\ Trim(OrElse(params, "email", "")) # ""
    /\ Trim(OrElse(params, "icon", "")) # ""
    /\ Trim(OrElse(params, "line1", "")) # ""

\* lines.filter(Boolean): the non-empty lines, in order
RECURSIVE FilterBoolean(_)
FilterBoolean(lines) ==
    IF lines = <<>> THEN <<>>
    ELSE IF Head(lines) = "" THEN FilterBoolean(Tail(lines))
         ELSE <<Head(lines)>> \o FilterBoolean(Tail(lines))

\* the notification of a row: recipient, subject, and the lines of the body
\* (joined by newlines in the script)
Notification(row) ==
    [to |-> NOTIFY_EMAIL,
     subject |-> "Wordmark request " \o row[8] \o " from " \o row[2],
     body |-> FilterBoolean(<<
        "New wordmark request:",
        "",
        "Request ID: " \o row[8],
        "Email: " \o row[2],
        "Icon: " \o row[3],
        "Layout: " \o row[7] \o " line(s)",
        "Line 1: " \o row[4],
        IF row[5] # "" THEN "Line 2: " \o row[5] ELSE "",
        IF row[6] # "" THEN "Line 3: " \o row[6] ELSE "",
        "",
        "To approve, open the Google Sheet and change the Status column from \"Pending\" to \"Approved\"." >>)]

(***************************************************************************)
(* The lookup shared by checkStatus and markDownloaded.                    *)
(***************************************************************************)
NormId(s) == Upper(Trim(s))
NormEmail(s) == Lower(Trim(s))

\* lines 140 and 170, negated: both credentials are present
HasCredentials(params) ==
    /\ NormId(OrElse(params, "requestId", "")) # ""
    /\ NormEmail(OrElse(params, "email", "")) # ""

\* RowMatches with the comparison of the e-mail left out
RowMatchesIdOnly(data, i, params) ==
    NormId(DataCell(data, i, 7)) = NormId(OrElse(params, "requestId", ""))

\* the test of lines 152 and 181 on data[i]
RowMatches(data, i, params) ==
    /\ NormId(DataCell(data, i, 7)) = NormId(OrElse(params, "requestId", ""))
    /\ NormEmail(DataCell(data, i, 1)) = NormEmail(OrElse(params, "email", ""))

\* the loops of lines 148 and 177: the first i >= 1 whose row matches, 0 if none
FindRow(data, params) ==
    LET hits == {i \in 1..(DataLength(data) - 1) : RowMatches(data, i, params)}
    IN  IF hits = {} THEN 0
        ELSE CHOOSE i \in hits : \A j \in hits : i <= j

\* the status cell of data[i], trimmed
RowStatus(data, i) == Trim(DataCell(data, i, 8))

\* checkStatus telling the caller that the id exists under another e-mail
checkStatusNamesWrongEmail(sh, params) ==
    IF ~HasCredentials(params) THEN MissingCredentials
    ELSE LET data == getValues(sh)
             i == FindRow(data, params)
         IN  IF i # 0 THEN CheckOk(RowStatus(data, i))
             ELSE IF \E j \in 1..(DataLength(data) - 1) : RowMatchesIdOnly(data, j, params)
                  THEN [success |-> FALSE, error |-> "E-mail does not match this request."]
             ELSE CheckNotFound

checkStatus(sh, params) ==
    IF ~HasCredentials(params) THEN MissingCredentials
    ELSE LET data == getValues(sh)
             i == FindRow(data, params)
         IN  IF i = 0 THEN CheckNotFound ELSE CheckOk(RowStatus(data, i))

\* DownloadDecision with the test of line 184 left out
DownloadDecisionForgetsDownloaded(sh, params) ==
    IF ~HasCredentials(params) THEN [i |-> 0, resp |-> MissingCredentials]
    ELSE LET data == getValues(sh)
             i == FindRow(data, params)
         IN  IF i = 0 THEN [i |-> 0, resp |-> DownloadNotFound]
             ELSE IF RowStatus(data, i) # Approved
                  THEN [i |-> i, resp |-> NotApproved]
             ELSE [i |-> i, resp |-> NoResp]

\* DownloadDecision with the test of line 188 left out
DownloadDecisionNoApprovalCheck(sh, params) ==
    IF ~HasCredentials(params) THEN [i |-> 0, resp |-> MissingCredentials]
    ELSE LET data == getValues(sh)
             i == FindRow(data, params)
         IN  IF i = 0 THEN [i |-> 0, resp |-> DownloadNotFound]
             ELSE IF RowStatus(data, i) = Downloaded
                  THEN [i |-> i, resp |-> AlreadyDownloaded]
             ELSE [i |-> i, resp |-> NoResp]

\* DownloadDecision comparing the status cell as stored, not trimmed
DownloadDecisionRawStatus(sh, params) ==
    IF ~HasCredentials(params) THEN [i |-> 0, resp |-> MissingCredentials]
    ELSE LET data == getValues(sh)
             i == FindRow(data, params)
         IN  IF i = 0 THEN [i |-> 0, resp |-> DownloadNotFound]
             ELSE IF DataCell(data, i, 8) = Downloaded
                  THEN [i |-> i, resp |-> AlreadyDownloaded]
             ELSE IF DataCell(data, i, 8) # Approved
                  THEN [i |-> i, resp |-> NotApproved]
             ELSE [i |-> i, resp |-> NoResp]

\* markDownloaded up to its first write: the response it returns without
\* writing, or NoResp when it goes on to write row i
DownloadDecision(sh, params) ==
    IF ~HasCredentials(params) THEN [i |-> 0, resp |-> MissingCredentials]
    ELSE LET data == getValues(sh)
             i == FindRow(data, params)
         IN  IF i = 0 THEN [i |-> 0, resp |-> DownloadNotFound]
             ELSE IF RowStatus(data, i) = Downloaded
                  THEN [i |-> i, resp |-> AlreadyDownloaded]
             ELSE IF RowStatus(data, i) # Approved
                  THEN [i |-> i, resp |-> NotApproved]
             ELSE [i |-> i, resp |-> NoResp]

(***************************************************************************)
(* State.                                                                  *)
(***************************************************************************)
\* the executions that may run at the same time
Clients == {1, 2}

VARIABLES
    sheet,    \* the rows of the sheet, header first
    outbox,   \* the notifications MailApp.sendEmail has accepted
    log,      \* the messages given to Logger.log
    now,      \* the clock read by new Date()
    req,      \* per client: the parameters of its last call (e.parameter)
    pc,       \* per execution: where it stands in its handler
    local,    \* per execution: the handler's local variables
    resp,     \* per client: the response of its last finished call
    calls     \* number of calls started

vars == <<sheet, outbox, log, now, req, pc, local, resp, calls>>

Init ==
    /\ sheet = <<HeaderRow>>
    /\ outbox = <<>>
    /\ log = <<>>
    /\ now = 0
    /\ req = [c \in Clients |-> NoReq]
    /\ pc = [c \in Clients |-> "idle"]
    /\ local = [c \in Clients |-> <<>>]
    /\ resp = [c \in Clients |-> NoResp]
    /\ calls = 0

\* a client may start a call
CanCall(c) == pc[c] = "idle" /\ calls < MaxCalls

\* a submit is started only while the ledger has room for its row and for
\* the rows of the submits that have not appended yet
HasRoom ==
    Len(sheet) - 1 + Cardinality({c \in Clients : pc[c] = "append"}) < MaxRows

(***************************************************************************)
(* submit.                                                                 *)
(***************************************************************************)
\* submitRequest up to the validation (lines 86-100): the id is drawn and
\* the clock is read (line 89) before anything is written
SubmitStart(c, params, draw) ==
    /\ CanCall(c)
    /\ req' = [req EXCEPT ![c] = Request("submit", params)]
    /\ HasRoom
    /\ calls' = calls + 1
    /\ LET row == SubmitRow(params, generateRequestId(draw), now)
       IN  IF SubmitValid(params)
           THEN /\ pc' = [pc EXCEPT ![c] = "append"]
                /\ local' = [local EXCEPT ![c] = [row |-> row]]
                /\ resp' = [resp EXCEPT ![c] = NoResp]
           ELSE /\ resp' = [resp EXCEPT ![c] = ValidationError]
                /\ local' = [local EXCEPT ![c] = <<>>]
                /\ UNCHANGED pc
    /\ UNCHANGED <<sheet, outbox, log, now>>

\* sheet.appendRow of line 103: the row carries the timestamp read at
\* line 89, whatever the clock shows by now
SubmitAppend(c) ==
    /\ pc[c] = "append"
    /\ sheet' = appendRow(sheet, local[c].row)
    /\ pc' = [pc EXCEPT ![c] = "notify"]
    /\ UNCHANGED <<outbox, log, now, req, local, resp, calls>>

\* MailApp.sendEmail succeeds, then the return (lines 105-132)
SubmitNotify(c) ==
    /\ pc[c] = "notify"
    /\ outbox' = Append(outbox, Notification(local[c].row))
    /\ resp' = [resp EXCEPT ![c] = SubmitOk(local[c].row[8])]
    /\ pc' = [pc EXCEPT ![c] = "idle"]
    /\ local' = [local EXCEPT ![c] = <<>>]
    /\ UNCHANGED <<sheet, log, now, req, calls>>

\* SubmitNotifyFails without the catch of line 123: the error reaches
\* handleRequest, which answers with a failure
SubmitNotifyFailsUncaught(c) ==
    /\ pc[c] = "notify"
    /\ resp' = [resp EXCEPT ![c] = [success |-> FALSE, error |-> "Service error"]]
    /\ pc' = [pc EXCEPT ![c] = "idle"]
    /\ local' = [local EXCEPT ![c] = <<>>]
    /\ UNCHANGED <<sheet, outbox, log, now, req, calls>>

\* MailApp.sendEmail throws: the catch logs it, then the return (lines 123-132)
SubmitNotifyFails(c) ==
    /\ pc[c] = "notify"
    /\ log' = Append(log, "Email notification failed: " \o "Service error")
    /\ resp' = [resp EXCEPT ![c] = SubmitOk(local[c].row[8])]
    /\ pc' = [pc EXCEPT ![c] = "idle"]
    /\ local' = [local EXCEPT ![c] = <<>>]
    /\ UNCHANGED <<sheet, outbox, now, req, calls>>

(***************************************************************************)
(* check.                                                                  *)
(***************************************************************************)
\* Check writing the time of the lookup into the row it found
CheckStampsRow(c, params) ==
    /\ CanCall(c)
    /\ req' = [req EXCEPT ![c] = Request("check", params)]
    /\ calls' = calls + 1
    /\ resp' = [resp EXCEPT ![c] = checkStatus(sheet, params)]
    /\ local' = [local EXCEPT ![c] = <<>>]
    /\ sheet' = IF HasCredentials(params) /\ FindRow(sheet, params) > 0
                THEN setValue(sheet, FindRow(sheet, params) + 1, 10, toISOString(now))
                ELSE sheet
    /\ UNCHANGED <<outbox, log, now, pc>>

\* checkStatus: one read of the sheet (lines 136-163)
Check(c, params) ==
    /\ CanCall(c)
    /\ req' = [req EXCEPT ![c] = Request("check", params)]
    /\ calls' = calls + 1
    /\ resp' = [resp EXCEPT ![c] = checkStatus(sheet, params)]
    /\ local' = [local EXCEPT ![c] = <<>>]
    /\ UNCHANGED <<sheet, outbox, log, now, pc>>

(***************************************************************************)
(* download, step by step: the read, the write of the status cell, the     *)
(* reading of the clock, the write of the Downloaded At cell.              *)
(***************************************************************************)
\* markDownloaded from its start to the decision on the row read (lines 166-190)
DownloadRead(c, params) ==
    /\ CanCall(c)
    /\ req' = [req EXCEPT ![c] = Request("download", params)]
    /\ calls' = calls + 1
    /\ LET d == DownloadDecision(sheet, params)
       IN  IF d.resp = NoResp
           THEN /\ pc' = [pc EXCEPT ![c] = "setStatus"]
                /\ local' = [local EXCEPT ![c] = [i |-> d.i]]
                /\ resp' = [resp EXCEPT ![c] = NoResp]
           ELSE /\ resp' = [resp EXCEPT ![c] = d.resp]
                /\ local' = [local EXCEPT ![c] = <<>>]
                /\ UNCHANGED pc
    /\ UNCHANGED <<sheet, outbox, log, now>>

\* line 193
DownloadSetStatus(c) ==
    /\ pc[c] = "setStatus"
    /\ sheet' = setValue(sheet, local[c].i + 1, 9, Downloaded)
    /\ pc' = [pc EXCEPT ![c] = "readClock"]
    /\ UNCHANGED <<outbox, log, now, req, local, resp, calls>>

\* the argument of the setValue of line 194, new Date().toISOString(), is
\* evaluated before the call is made
DownloadReadClock(c) ==
    /\ pc[c] = "readClock"
    /\ local' = [local EXCEPT ![c] = [i |-> local[c].i,
                                      timestamp |-> toISOString(now)]]
    /\ pc' = [pc EXCEPT ![c] = "setDownloadedAt"]
    /\ UNCHANGED <<sheet, outbox, log, now, req, resp, calls>>

\* DownloadSetDownloadedAt writing the last row of the sheet
\* (sheet.getLastRow()), not row i + 1
DownloadSetDownloadedAtLastRow(c) ==
    /\ pc[c] = "setDownloadedAt"
    /\ sheet' = setValue(sheet, Len(sheet), 10, local[c].timestamp)
    /\ resp' = [resp EXCEPT ![c] = DownloadOk]
    /\ pc' = [pc EXCEPT ![c] = "idle"]
    /\ UNCHANGED <<outbox, log, now, req, local, calls>>

\* the setValue of line 194 and the return of line 196: the cell gets the
\* time read before the call, whatever the clock shows by now; the client
\* keeps the row it was granted
DownloadSetDownloadedAt(c) ==
    /\ pc[c] = "setDownloadedAt"
    /\ sheet' = setValue(sheet, local[c].i + 1, 10, local[c].timestamp)
    /\ resp' = [resp EXCEPT ![c] = DownloadOk]
    /\ pc' = [pc EXCEPT ![c] = "idle"]
    /\ UNCHANGED <<outbox, log, now, req, local, calls>>

(***************************************************************************)
(* download with a write that throws: handleRequest answers with the error *)
(* (lines 80-82); the writes done before stay.                             *)
(***************************************************************************)
CaughtError == [success |-> FALSE, error |-> "Service error"]

\* the setValue of line 193 throws: nothing has been written
DownloadSetStatusFails(c) ==
    /\ pc[c] = "setStatus"
    /\ resp' = [resp EXCEPT ![c] = CaughtError]
    /\ pc' = [pc EXCEPT ![c] = "idle"]
    /\ UNCHANGED <<sheet, outbox, log, now, req, local, calls>>

\* the setValue of line 194 throws: the status cell has been written
DownloadSetDownloadedAtFails(c) ==
    /\ pc[c] = "setDownloadedAt"
    /\ resp' = [resp EXCEPT ![c] = CaughtError]
    /\ pc' = [pc EXCEPT ![c] = "idle"]
    /\ UNCHANGED <<sheet, outbox, log, now, req, local, calls>>

(***************************************************************************)
(* Any other action (line 78).                                             *)
(***************************************************************************)
HandleUnknown(c) ==
    /\ CanCall(c)
    /\ req' = [req EXCEPT ![c] = Request("export", <<>>)]
    /\ calls' = calls + 1
    /\ resp' = [resp EXCEPT ![c] = UnknownAction]
    /\ local' = [local EXCEPT ![c] = <<>>]
    /\ UNCHANGED <<sheet, outbox, log, now, pc>>

(***************************************************************************)
(* The environment: the clock, and the people who edit the Status column.  *)
(***************************************************************************)
Tick ==
    /\ now < MaxTime
    /\ now' = now + 1
    /\ UNCHANGED <<sheet, outbox, log, req, pc, local, resp, calls>>

\* the data rows of the sheet, by sheet row number
DataRows == 2..Len(sheet)

\* a hand edit of the status cell of row r from one value to another
EditStatus(r, from, to) ==
    /\ sheet[r][9] = from
    /\ sheet' = setValue(sheet, r, 9, to)
    /\ UNCHANGED <<outbox, log, now, req, pc, local, resp, calls>>

ReviewerApproves == \E r \in DataRows : EditStatus(r, Pending, Approved)
\* "Change the status to Rejected": from whatever the cell holds
ReviewerRejects ==
    \E r \in DataRows :
        /\ sheet[r][9] # Rejected
        /\ EditStatus(r, sheet[r][9], Rejected)
OperatorResets   == \E r \in DataRows : EditStatus(r, Downloaded, Approved)
\* the reviewer types the new status with stray white space or in lower case
ReviewerTypes ==
    \E r \in DataRows, v \in HandTyped : EditStatus(r, Pending, v)

(***************************************************************************)
(* Specifications.                                                         *)
(***************************************************************************)
ApiStep(c) ==
    \/ \E params \in SubmitInputs, draw \in RandomDraws : SubmitStart(c, params, draw)
    \/ SubmitAppend(c)
    \/ SubmitNotify(c)
    \/ \E params \in LookupInputs : Check(c, params)
    \/ \E params \in LookupInputs : DownloadRead(c, params)
    \/ DownloadSetStatus(c)
    \/ DownloadReadClock(c)
    \/ DownloadSetDownloadedAt(c)
    \/ HandleUnknown(c)

\* concurrent executions, reviewer edits, no operator reset
NextNoReset ==
    \/ \E c \in Clients : ApiStep(c)
    \/ Tick
    \/ ReviewerApproves
    \/ ReviewerRejects
    \/ ReviewerTypes

SpecNoReset == Init /\ [][NextNoReset]_vars

\* the same with the operator's reset of Downloaded to Approved
Next ==
    \/ \E c \in Clients : ApiStep(c)
    \/ Tick
    \/ ReviewerApproves
    \/ ReviewerRejects
    \/ ReviewerTypes
    \/ OperatorResets

Spec == Init /\ [][Next]_vars

\* submits whose notification is sent or fails, with checks and approvals
NextMail ==
    \/ \E c \in Clients, params \in SubmitInputs, draw \in RandomDraws :
          SubmitStart(c, params, draw)
    \/ \E c \in Clients : SubmitAppend(c)
    \/ \E c \in Clients : SubmitNotify(c)
    \/ \E c \in Clients : SubmitNotifyFails(c)
    \/ \E c \in Clients, params \in LookupInputs : Check(c, params)
    \/ Tick
    \/ ReviewerApproves

SpecMail == Init /\ [][NextMail]_vars

\* submits whose ids come from the wide draws
NextIds ==
    \/ \E c \in Clients, params \in SubmitInputs, draw \in WideDraws :
          SubmitStart(c, params, draw)
    \/ \E c \in Clients : SubmitAppend(c)
    \/ \E c \in Clients : SubmitNotify(c)
    \/ Tick

SpecIds == Init /\ [][NextIds]_vars

\* the calls step by step, with the writes of markDownloaded failing or not
NextFaults ==
    \/ \E c \in Clients, params \in SubmitInputs, draw \in RandomDraws :
          SubmitStart(c, params, draw)
    \/ \E c \in Clients : SubmitAppend(c)
    \/ \E c \in Clients : SubmitNotify(c)
    \/ \E c \in Clients, params \in LookupInputs : Check(c, params)
    \/ \E c \in Clients, params \in LookupInputs : DownloadRead(c, params)
    \/ \E c \in Clients : DownloadSetStatus(c)
    \/ \E c \in Clients : DownloadSetStatusFails(c)
    \/ \E c \in Clients : DownloadReadClock(c)
    \/ \E c \in Clients : DownloadSetDownloadedAt(c)
    \/ \E c \in Clients : DownloadSetDownloadedAtFails(c)
    \/ Tick
    \/ ReviewerApproves

SpecFaults == Init /\ [][NextFaults]_vars

(***************************************************************************)
(* Properties.                                                             *)
(***************************************************************************)
\* an execution of the script took this step (hand edits and the clock
\* leave pc and calls alone)
ApiChange == pc' # pc \/ calls' # calls

\* client c started a call with this action in this step
Started(c, action) ==
    /\ calls' = calls + 1
    /\ pc[c] = "idle"
    /\ req'[c].action = action

\* the credentials of client c's last call find a record of the sheet
Finds(c) ==
    /\ HasCredentials(req[c].params)
    /\ FindRow(sheet, req[c].params) > 0

\* the sheet row (numbered as the sheet numbers it) those credentials find
FoundRow(c) == FindRow(sheet, req[c].params) + 1

\* C1: two downloads that run at the same time on one Approved record never
\* both return success: no two clients hold a success for the same row.
\* (Stated as the claim states it; the script violates it.)
C1_NeverTwoSuccesses ==
    \A c1, c2 \in Clients :
        (c1 # c2 /\ pc[c1] = "idle" /\ pc[c2] = "idle"
            /\ req[c1].action = "download" /\ req[c2].action = "download"
            /\ resp[c1] = DownloadOk /\ resp[c2] = DownloadOk)
        => local[c1].i # local[c2].i

\* C2: a download that reads its record Approved goes on to write it, its
\* first write leaves the status Downloaded, its reading of the clock
\* writes nothing and its last step returns success without touching the
\* status; a download that reads its record Downloaded returns
\* AlreadyDownloaded and changes nothing; no step of the script changes a
\* Downloaded status (only a hand edit does), and every record keeps its
\* place, id and e-mail, so the record a pair of credentials finds stays
\* the same record.  So of downloads that follow one another the first
\* succeeds and the later ones are refused.
C2_DownloadOnce ==
    [][ /\ \A c \in Clients :
             /\ (Started(c, "download") /\ DownloadRead(c, req'[c].params)
                    /\ HasCredentials(req'[c].params)
                    /\ FindRow(sheet, req'[c].params) > 0)
                => LET i == FindRow(sheet, req'[c].params)
                   IN  /\ RowStatus(sheet, i) = Approved
                          => /\ pc'[c] = "setStatus"
                             /\ local'[c].i = i
                       /\ RowStatus(sheet, i) = Downloaded
                          => /\ resp'[c] = AlreadyDownloaded
                             /\ pc'[c] = "idle"
                             /\ sheet' = sheet
             /\ (pc[c] = "setStatus" /\ pc'[c] # pc[c])
                => /\ pc'[c] = "readClock"
                   /\ sheet'[local[c].i + 1][9] = Downloaded
             /\ (pc[c] = "readClock" /\ pc'[c] # pc[c])
                => /\ pc'[c] = "setDownloadedAt"
                   /\ sheet' = sheet
             /\ (pc[c] = "setDownloadedAt" /\ pc'[c] # pc[c])
                => /\ resp'[c] = DownloadOk
                   /\ sheet'[local[c].i + 1][9] = sheet[local[c].i + 1][9]
        /\ ApiChange
           => \A r \in DataRows :
                sheet[r][9] = Downloaded => sheet'[r][9] = Downloaded
        /\ sheet' # sheet
           => /\ Len(sheet') >= Len(sheet)
              /\ \A r \in DataRows :
                   /\ sheet'[r][2] = sheet[r][2]
                   /\ sheet'[r][8] = sheet[r][8]
      ]_vars

\* C2 witness: one client was granted the download of a record, the record
\* is Downloaded, and the other client's download of the same record was
\* refused as already done
C2_Witness ==
    \E c1, c2 \in Clients :
        /\ c1 # c2
        /\ req[c1].action = "download" /\ resp[c1] = DownloadOk
        /\ req[c2].action = "download" /\ resp[c2] = AlreadyDownloaded
        /\ Finds(c1) /\ Finds(c2) /\ FoundRow(c1) = FoundRow(c2)
        /\ sheet[FoundRow(c1)][9] = Downloaded
        /\ sheet[FoundRow(c1)][10] # ""

\* C3: a download whose record has a status (trimmed, as the script reads
\* it) other than Approved and Downloaded returns NotApproved and leaves the
\* sheet as it was.
C3_NotApprovedNoChange ==
    [][ \A c \in Clients :
          (Started(c, "download") /\ DownloadRead(c, req'[c].params)
              /\ HasCredentials(req'[c].params)
              /\ FindRow(sheet, req'[c].params) > 0
              /\ RowStatus(sheet, FindRow(sheet, req'[c].params))
                    \notin {Approved, Downloaded})
          => /\ resp'[c] = NotApproved
             /\ pc'[c] = "idle"
             /\ sheet' = sheet
      ]_vars

\* C3 witness: a download was refused as not approved; its record is
\* Rejected and has no download time
C3_Witness ==
    \E c \in Clients :
        /\ req[c].action = "download" /\ resp[c] = NotApproved
        /\ Finds(c)
        /\ sheet[FoundRow(c)][9] = Rejected
        /\ sheet[FoundRow(c)][10] = ""

\* C4: when a valid submit appends its record, a check with the id of
\* that record and the submitted e-mail returns Pending and
\* canDownload = false, whatever the ledger held before; the submit returns
\* that id and writes nothing more.
\* (Stated as the claim states it; an id drawn twice violates it, see C6.)
C4_CheckAfterSubmit ==
    [][ \A c \in Clients :
          /\ (pc[c] = "append" /\ pc'[c] = "notify")
             => checkStatus(sheet', [requestId |-> local[c].row[8],
                                     email |-> req[c].params.email])
                = [success |-> TRUE, status |-> Pending, canDownload |-> FALSE]
          /\ (pc[c] = "notify" /\ pc'[c] = "idle")
             => /\ resp'[c] = SubmitOk(local[c].row[8])
                /\ sheet' = sheet
      ]_vars

\* the request id of the call matches some record, and no record with that
\* id carries the e-mail of the call
WrongEmailFor(sh, params) ==
    /\ HasCredentials(params)
    /\ \E r \in 2..Len(sh) : NormId(sh[r][8]) = NormId(params.requestId)
    /\ \A r \in 2..Len(sh) :
         NormId(sh[r][8]) = NormId(params.requestId)
         => NormEmail(sh[r][2]) # NormEmail(params.email)

\* C5: a check or a download with the request id of a stored record and an
\* e-mail that differs from the e-mail stored with that id returns NotFound
\* and changes no record, whatever the status of the record.
C5_WrongEmailNotFound ==
    [][ \A c \in Clients :
          /\ (Started(c, "check") /\ Check(c, req'[c].params)
                 /\ WrongEmailFor(sheet, req'[c].params))
             => /\ resp'[c] = CheckNotFound
                /\ sheet' = sheet
          /\ (Started(c, "download") /\ DownloadRead(c, req'[c].params)
                 /\ WrongEmailFor(sheet, req'[c].params))
             => /\ resp'[c] = DownloadNotFound
                /\ pc'[c] = "idle"
                /\ sheet' = sheet
      ]_vars

\* C5 witness: a download with the id of an Approved record and another
\* e-mail was answered NotFound, and the record is still Approved
C5_Witness ==
    \E c \in Clients :
        /\ req[c].action = "download" /\ resp[c] = DownloadNotFound
        /\ WrongEmailFor(sheet, req[c].params)
        /\ \E r \in DataRows :
             /\ NormId(sheet[r][8]) = NormId(req[c].params.requestId)
             /\ sheet[r][9] = Approved
             /\ sheet[r][10] = ""

\* C6: no two records of the ledger carry the same request id.
\* (Stated as the claim states it; the script violates it.)
C6_UniqueRequestIds ==
    \A r1, r2 \in DataRows : r1 # r2 => sheet[r1][8] # sheet[r2][8]

\* C7: in every state each record has a download time exactly if its status
\* is Downloaded.  (Stated as the claim states it; the script violates it.)
C7_DownloadedAtIffDownloaded ==
    \A r \in DataRows : (sheet[r][10] # "") <=> (sheet[r][9] = Downloaded)

\* C8: the only change an execution of the script makes to the status of an
\* existing record is from Approved to Downloaded, whatever hand edits
\* happen in between.
\* (Stated as the claim states it; a hand edit between the read and the
\* write of a download violates it, see C1.)
C8_OnlyApprovedToDownloaded ==
    [][ ApiChange
        => \A r \in DataRows :
             sheet'[r][9] # sheet[r][9]
             => /\ Trim(sheet[r][9]) = Approved
                /\ sheet'[r][9] = Downloaded
      ]_vars

\* C9: once a record has a download time, no step changes it.
\* (Stated as the claim states it; the race of C1 violates it.)
C9_DownloadedAtSetOnce ==
    [][ \A r \in DataRows : sheet[r][10] # "" => sheet'[r][10] = sheet[r][10] ]_vars

\* a required field of submit is absent or empty after trimming
MissingRequired(params) ==
    \E f \in {"email", "icon", "line1"} :
        f \notin DOMAIN params \/ trim(params[f]) = ""

\* C10: a submit whose email, icon or line1 is absent or blank returns the
\* validation failure, appends no record and sends no notification.
C10_InvalidSubmitNoRecord ==
    [][ \A c \in Clients :
          (Started(c, "submit") /\ MissingRequired(req'[c].params)
              /\ \E draw \in RandomDraws : SubmitStart(c, req'[c].params, draw))
          => /\ resp'[c] = ValidationError
             /\ pc'[c] = "idle"
             /\ sheet' = sheet
             /\ outbox' = outbox
      ]_vars

\* C10 witness: a submit without line1 was refused while the ledger holds
\* one record and one notification, those of an earlier submit
C10_Witness ==
    \E c \in Clients :
        /\ req[c].action = "submit" /\ resp[c] = ValidationError
        /\ "line1" \notin DOMAIN req[c].params
        /\ Len(sheet) = 2
        /\ Len(outbox) = 1

\* C11: a check, whatever its credentials (matching, not matching, missing),
\* leaves the sheet, the outbox and the log as they were; so does any
\* number of checks in a row.
C11_CheckReadOnly ==
    [][ \A c \in Clients :
          (Started(c, "check") /\ Check(c, req'[c].params))
          => /\ sheet' = sheet
             /\ outbox' = outbox
             /\ log' = log
             /\ pc'[c] = "idle"
      ]_vars

\* C11 witness: both clients have checked, one with the credentials of an
\* Approved record and one with credentials that find nothing, and the record
\* is still Approved with no download time
C11_Witness ==
    \E c1, c2 \in Clients :
        /\ req[c1].action = "check" /\ resp[c1] = CheckOk(Approved)
        /\ req[c2].action = "check" /\ resp[c2] = CheckNotFound
        /\ Finds(c1)
        /\ sheet[FoundRow(c1)][9] = Approved
        /\ sheet[FoundRow(c1)][10] = ""

\* C12: a valid submit goes on to append the Pending record it has made,
\* its next step appends that record, and its return, whether
\* MailApp.sendEmail accepted the notification or threw, is a success with
\* the request id of that record; the record is in the ledger at the return
\* (its status as appended unless the reviewer has edited it since).
C12_MailFailureSubmitSucceeds ==
    [][ \A c \in Clients :
          /\ (Started(c, "submit") /\ SubmitValid(req'[c].params)
                 /\ \E draw \in RandomDraws : SubmitStart(c, req'[c].params, draw))
             => /\ pc'[c] = "append"
                /\ local'[c].row[9] = Pending
          /\ (pc[c] = "append" /\ pc'[c] # pc[c])
             => /\ pc'[c] = "notify"
                /\ sheet' = Append(sheet, local[c].row)
          /\ (pc[c] = "notify" /\ pc'[c] = "idle")
             => /\ resp'[c] = SubmitOk(local[c].row[8])
                /\ sheet' = sheet
                /\ \E r \in DataRows :
                     /\ \A k \in 1..8 : sheet'[r][k] = local[c].row[k]
                     /\ sheet'[r][9] \in {Pending, Approved}
      ]_vars

\* C12 witness: a submit returned success although no notification was ever
\* accepted and the failure was logged; its record is in the ledger, Pending
C12_Witness ==
    \E c \in Clients :
        /\ req[c].action = "submit" /\ pc[c] = "idle"
        /\ resp[c] \in {SubmitOk(id) : id \in IssuedIds}
        /\ outbox = <<>> /\ log # <<>>
        /\ \E r \in DataRows :
             /\ sheet[r][8] = resp[c].requestId
             /\ sheet[r][9] = Pending

\* the credentials of the call are those of record r of sheet sh, up to
\* letter case and surrounding white space
CredentialsOf(sh, r, params) ==
    /\ HasCredentials(params)
    /\ NormId(sh[r][8]) = NormId(params.requestId)
    /\ NormEmail(sh[r][2]) = NormEmail(params.email)

\* C13: a check with the credentials of a record (up to letter case and
\* surrounding white space) returns that record's status, and so
\* canDownload = true when the record is Approved; canDownload is true
\* exactly when the status returned is Approved.
\* (Stated as the claim states it; a second record with the same id and
\* e-mail violates it, see C6.)
C13_CheckReturnsStoredStatus ==
    [][ \A c \in Clients :
          (Started(c, "check") /\ Check(c, req'[c].params))
          => \A r \in DataRows :
               CredentialsOf(sheet, r, req'[c].params)
               => /\ resp'[c].success
                  /\ resp'[c].status = Trim(sheet[r][9])
                  /\ resp'[c].canDownload = (Trim(sheet[r][9]) = Approved)
      ]_vars

\* WM- followed by exactly six characters of the 32-symbol alphabet
IsRequestId(id) ==
    /\ Len(id) = 9
    /\ SubSeq(id, 1, 3) = "WM-"
    /\ \A k \in 4..9 :
         \E j \in 1..32 :
            CharAt(id, k) = CharAt("ABCDEFGHJKLMNPQRSTUVWXYZ23456789", j)

\* C14: the id a valid submit draws has the form WM- plus six characters
\* of the alphabet, the record the submit appends carries that id, and the
\* success response returns that same id.
C14_RequestIdFormat ==
    [][ \A c \in Clients :
          /\ (Started(c, "submit") /\ SubmitValid(req'[c].params)
                 /\ \E draw \in WideDraws : SubmitStart(c, req'[c].params, draw))
             => IsRequestId(local'[c].row[8])
          /\ (pc[c] = "append" /\ pc'[c] = "notify")
             => /\ IsRequestId(sheet'[Len(sheet')][8])
                /\ local[c].row = sheet'[Len(sheet')]
          /\ (pc[c] = "notify" /\ pc'[c] = "idle")
             => /\ resp'[c].success
                /\ IsRequestId(resp'[c].requestId)
                /\ resp'[c].requestId = local[c].row[8]
                /\ \E r \in DataRows : sheet'[r] = local[c].row
      ]_vars

\* C14 witness: a submit returned the id made of the last symbol of the
\* alphabet six times, and a record of the ledger carries it
C14_Witness ==
    \E c \in Clients :
        /\ req[c].action = "submit" /\ pc[c] = "idle"
        /\ resp[c] = SubmitOk("WM-999999")
        /\ \E r \in DataRows : sheet[r][8] = "WM-999999"

\* C15: a valid submit writes once: that step leaves every row of the sheet
\* as it was and in its place, and adds one row at the end: the trimmed
\* e-mail and payload of the call, the id the call returns, status Pending,
\* no download time; the steps before and after it write nothing.  Downloads and checks of other executions
\* run in between.
C15_SubmitOnlyAppends ==
    [][ \A c \in Clients :
          /\ (Started(c, "submit") /\ SubmitValid(req'[c].params)
                 /\ \E draw \in RandomDraws : SubmitStart(c, req'[c].params, draw))
             => /\ sheet' = sheet
                /\ pc'[c] = "append"
          /\ (pc[c] = "append" /\ pc'[c] # pc[c])
             => /\ pc'[c] = "notify"
                /\ Len(sheet') = Len(sheet) + 1
                /\ SubSeq(sheet', 1, Len(sheet)) = sheet
                /\ LET row == sheet'[Len(sheet')]
                       p == req[c].params
                   IN  /\ row[2] = trim(p.email)
                       /\ row[3] = trim(p.icon)
                       /\ row[4] = trim(p.line1)
                       /\ row[5] = trim(OrElse(p, "line2", ""))
                       /\ row[6] = trim(OrElse(p, "line3", ""))
                       /\ row[8] = local[c].row[8]
                       /\ row[9] = Pending
                       /\ row[10] = ""
          /\ (pc[c] = "notify" /\ pc'[c] = "idle")
             => /\ sheet' = sheet
                /\ resp'[c] = SubmitOk(local[c].row[8])
      ]_vars

\* C15 witness: a submit has returned and its record is the last of the
\* ledger, Pending, while a download of the other client stands between its
\* two writes on the record before it
C15_Witness ==
    \E c1, c2 \in Clients :
        /\ req[c1].action = "submit" /\ pc[c1] = "idle" /\ resp[c1].success
        /\ Len(sheet) = 3
        /\ sheet[3][8] = resp[c1].requestId
        /\ sheet[3][9] = Pending /\ sheet[3][10] = ""
        /\ pc[c2] = "setDownloadedAt" /\ local[c2].i = 1
        /\ sheet[2][9] = Downloaded

\* sheets sh and sh2 have the same rows but for cell (r, col)
SameButCell(sh, sh2, r, col) ==
    /\ Len(sh2) = Len(sh)
    /\ \A q \in 1..Len(sh) : \A k \in 1..10 :
         (q # r \/ k # col) => sh2[q][k] = sh[q][k]

\* C16: a download reads without writing and goes on only for a record
\* that carries its credentials and is Approved; its first write changes the
\* status cell of that record and nothing else, its reading of the clock
\* writes nothing, its second write changes the download time of that
\* record and nothing else, also when rows have been appended since the
\* read.
C16_DownloadTouchesOneRecord ==
    [][ \A c \in Clients :
          /\ (Started(c, "download") /\ DownloadRead(c, req'[c].params))
             => /\ sheet' = sheet
                /\ pc'[c] = "setStatus"
                   => /\ CredentialsOf(sheet, local'[c].i + 1, req'[c].params)
                      /\ Trim(sheet[local'[c].i + 1][9]) = Approved
          /\ (pc[c] = "setStatus" /\ pc'[c] = "readClock")
             => /\ CredentialsOf(sheet, local[c].i + 1, req[c].params)
                /\ SameButCell(sheet, sheet', local[c].i + 1, 9)
                /\ sheet'[local[c].i + 1][9] = Downloaded
          /\ (pc[c] = "readClock" /\ pc'[c] = "setDownloadedAt")
             => sheet' = sheet
          /\ (pc[c] = "setDownloadedAt" /\ pc'[c] = "idle")
             => /\ CredentialsOf(sheet, local[c].i + 1, req[c].params)
                /\ SameButCell(sheet, sheet', local[c].i + 1, 10)
                /\ sheet'[local[c].i + 1][10] # ""
                /\ resp'[c] = DownloadOk
      ]_vars

\* C16 witness: a download of the first record was granted and the record
\* is Downloaded with its time, while the other client's submit has appended
\* a second record and not yet returned
C16_Witness ==
    \E c1, c2 \in Clients :
        /\ req[c1].action = "download" /\ pc[c1] = "idle"
        /\ resp[c1] = DownloadOk /\ local[c1].i = 1
        /\ sheet[2][9] = Downloaded /\ sheet[2][10] # ""
        /\ pc[c2] = "notify"
        /\ Len(sheet) = 3 /\ sheet[3] = local[c2].row

\* C17: a download whose credentials are those of an Approved record of
\* the ledger goes on to mark that record, whatever other records the
\* ledger holds.
\* (Stated as the claim states it; an earlier record with the same id and
\* e-mail violates it.)
C17_ApprovedNeverShadowed ==
    [][ \A c \in Clients :
          (Started(c, "download") /\ DownloadRead(c, req'[c].params))
          => \A r \in DataRows :
               (CredentialsOf(sheet, r, req'[c].params) /\ sheet[r][9] = Approved)
               => /\ pc'[c] = "setStatus"
                  /\ local'[c].i + 1 = r
      ]_vars

\* the response of a check says the wordmark may be downloaded
SaysCanDownload(r) == r.success /\ r.canDownload

\* C18: a download goes on to its writes exactly if a check with the same
\* credentials on the ledger it reads returns canDownload = true, and
\* otherwise returns a failure at once; a download that goes on returns
\* success after its two writes and the reading of the clock between them.
C18_CheckDownloadAgree ==
    [][ \A c \in Clients :
          /\ (Started(c, "download") /\ DownloadRead(c, req'[c].params))
             => /\ (pc'[c] = "setStatus")
                      <=> SaysCanDownload(checkStatus(sheet, req'[c].params))
                /\ pc'[c] = "idle" => ~resp'[c].success
          /\ (pc[c] = "setStatus" /\ pc'[c] # pc[c])
             => pc'[c] = "readClock"
          /\ (pc[c] = "readClock" /\ pc'[c] # pc[c])
             => pc'[c] = "setDownloadedAt"
          /\ (pc[c] = "setDownloadedAt" /\ pc'[c] # pc[c])
             => resp'[c] = DownloadOk
      ]_vars

\* C18 witness: a check was told canDownload = true, the download with the
\* same credentials after it succeeded, and the record is Downloaded
C18_Witness ==
    \E c1, c2 \in Clients :
        /\ req[c1].action = "check" /\ resp[c1] = CheckOk(Approved)
        /\ req[c2].action = "download" /\ resp[c2] = DownloadOk
        /\ req[c1].params = req[c2].params
        /\ Finds(c2)
        /\ sheet[FoundRow(c2)][9] = Downloaded

\* C19: a download returns a failure only before its first write, and the
\* step that returns it writes nothing; so a download that fails has left
\* the sheet as it was, also when one of its writes throws.
\* (Stated as the claim states it; an error of the second write violates it.)
C19_FailedDownloadNoChange ==
    [][ \A c \in Clients :
          (/\ req'[c].action = "download"
           /\ pc'[c] = "idle"
           /\ resp'[c] # resp[c]
           /\ ~resp'[c].success)
          => /\ sheet' = sheet
             /\ pc[c] \in {"idle", "setStatus"}
      ]_vars

\* the e-mail of record row is the caller's, up to case and white space
OwnRow(row, email) == NormEmail(row[2]) = NormEmail(email)

\* the ledger without the records of other e-mails: what two ledgers that
\* differ only in such records have in common
RECURSIVE OwnRowsFrom(_, _, _)
OwnRowsFrom(sh, r, email) ==
    IF r > Len(sh) THEN <<>>
    ELSE (IF OwnRow(sh[r], email) THEN <<sh[r]>> ELSE <<>>)
         \o OwnRowsFrom(sh, r + 1, email)

OwnRows(sh, email) == <<sh[1]>> \o OwnRowsFrom(sh, 2, email)

\* C20: the response of a check and of a download is the one the call gets
\* on the ledger without the records of other e-mails, and a download that
\* finds no record of the caller's writes nothing: records of other e-mails,
\* whatever their ids, leave no trace in the response.
C20_OtherEmailsInvisible ==
    [][ \A c \in Clients :
          /\ (Started(c, "check") /\ Check(c, req'[c].params))
             => resp'[c] = checkStatus(
                               OwnRows(sheet, OrElse(req'[c].params, "email", "")),
                               req'[c].params)
          /\ (Started(c, "download") /\ DownloadRead(c, req'[c].params))
             => LET d == DownloadDecision(
                             OwnRows(sheet, OrElse(req'[c].params, "email", "")),
                             req'[c].params)
                IN  /\ sheet' = sheet
                    /\ (d.resp = NoResp) <=> (pc'[c] = "setStatus")
                    /\ resp'[c] = d.resp
      ]_vars

\* C20 witness: a check with the id of another caller's record and a check
\* with an id no record carries got the same response, NotFound
C20_Witness ==
    \E c1, c2 \in Clients :
        /\ req[c1].action = "check" /\ req[c2].action = "check"
        /\ HasCredentials(req[c1].params) /\ HasCredentials(req[c2].params)
        /\ \E r \in DataRows : NormId(sheet[r][8]) = NormId(req[c1].params.requestId)
        /\ \A r \in DataRows : NormId(sheet[r][8]) # NormId(req[c2].params.requestId)
        /\ resp[c1] = CheckNotFound
        /\ resp[c2] = resp[c1]

====
